---- MODULE Spec2Model ----
(***************************************************************************)
(* Wine Analysis dashboard (ploty_dashboard.py).                           *)
(*                                                                         *)
(* The module-level tables (wine_df, ingredients, avg_wine_df), the two    *)
(* chart builders (create_scatter_chart, create_bar_chart), the four       *)
(* widgets and the two Dash callbacks, as a state machine.  The pandas and *)
(* plotly.express calls the script makes are modelled by what they         *)
(* compute: groupby/mean, px.scatter and px.bar (column lookup, wide-form  *)
(* detection, melt, trace grouping).                                       *)
(***************************************************************************)
EXTENDS Integers, Sequences, FiniteSets, TLC

VARIABLES
    wine_df,        \* module global, line 30: [columns, rows]
    ingredients,    \* module global, line 31: sequence of column names
    avg_wine_df,    \* module global, line 33: [columns, rows]
    bar_default,    \* the list object bound as create_bar_chart's default, line 60
    x_axis,         \* value of dropdown "x_axis", line 81
    y_axis,         \* value of dropdown "y_axis", line 84
    color_encode,   \* value of checklist "color_encode", line 87
    multi_select,   \* value of dropdown "multi_select", line 90
    scatter_chart,  \* figure held by dcc.Graph "scatter_chart", line 107
    bar_chart,      \* figure held by dcc.Graph "bar_chart", line 114
    call,           \* the last direct invocation: function and arguments
    ret,            \* what that invocation returned or raised
    invocations,    \* how many direct invocations have been made
    startup         \* the tables and the default list as they were after import

vars == <<wine_df, ingredients, avg_wine_df, bar_default, x_axis, y_axis,
          color_encode, multi_select, scatter_chart, bar_chart, call, ret,
          invocations, startup>>

---------------------------------------------------------------------------
(* Bounds of the model *)

\* Longest working table.
MaxRows == 3
\* Longest field list handed to the bar builder by a direct caller.
MaxFields == 3
\* Most direct invocations in one run.
MaxCalls == 2

---------------------------------------------------------------------------
(* The dataset: sklearn's load_wine() *)

\* wine_dataset.feature_names
feature_names ==
    << "alcohol", "malic_acid", "ash", "alcalinity_of_ash", "magnesium",
       "total_phenols", "flavanoids", "nonflavanoid_phenols", "proanthocyanins",
       "color_intensity", "hue", "od280/od315_of_diluted_wines", "proline" >>

\* wine_dataset.target_names
target_names == << "class_0", "class_1", "class_2" >>

\* Two measurement levels per feature stand for the dataset's real values.
Levels == {0, 1}

\* The value of feature number k (1-based) at a level: distinct features of one
\* sample carry distinct values.
Measure(level, k) == (level + 1) * k + level

\* One row of wine_dataset.data over the first n features.
DataRow(level, n) == [k \in 1..n |-> Measure(level, k)]

---------------------------------------------------------------------------
(* Cells: pandas values.  Numbers are kept as reduced fractions so that a   *)
(* mean is exact.                                                          *)

RECURSIVE GCD(_, _)
GCD(a, b) == IF b = 0 THEN a ELSE GCD(b, a % b)

\* A number n/d in lowest terms (d > 0, n >= 0).
Num(n, d) == LET g == GCD(n, d) IN [num |-> n \div g, den |-> d \div g]

\* A string cell (a WineType label, or a string given as data).
Str(s) == [str |-> s]

RECURSIVE SumSeq(_)
SumSeq(s) == IF s = <<>> THEN 0 ELSE Head(s) + SumSeq(Tail(s))

\* Series.mean() over cells whose denominators are 1.
Mean(cells) == Num(SumSeq([i \in DOMAIN cells |-> cells[i].num]), Len(cells))

RECURSIVE Ascending(_)
\* The members of a finite set of integers as an ascending sequence.
Ascending(S) ==
    IF S = {} THEN <<>>
    ELSE LET m == CHOOSE m \in S : \A n \in S : m <= n
         IN <<m>> \o Ascending(S \ {m})

\* The set of elements of a sequence.
Range(s) == {s[i] : i \in DOMAIN s}

\* The elements of s in order of first appearance (pandas unique, groupby sort=False).
Unique(s) ==
    LET idx == Ascending({i \in DOMAIN s : \A j \in 1..(i - 1) : s[j] # s[i]})
    IN [k \in DOMAIN idx |-> s[idx[k]]]

---------------------------------------------------------------------------
(* Loading and aggregating, lines 14-33 *)

\* load_wine_data_as_dataframe: the feature columns, then WineType looked up in
\* target_names by each row's target (a 0-based index).
load_wine_data_as_dataframe(data, target, names) ==
    [columns |-> names \o <<"WineType">>,
     rows |-> [i \in DOMAIN data |->
                 [c \in Range(names) \cup {"WineType"} |->
                    IF c = "WineType" THEN Str(target_names[target[i] + 1])
                    ELSE LET k == CHOOSE k \in DOMAIN names : names[k] = c
                         IN Num(data[i][k], 1)]]]

\* wine_df.drop(columns=["WineType"]).columns
DropWineType(df) ==
    LET idx == Ascending({i \in DOMAIN df.columns : df.columns[i] # "WineType"})
    IN [k \in DOMAIN idx |-> df.columns[idx[k]]]

\* The group keys of groupby("WineType"), sorted (groupby's default sort=True).
\* The labels are target_names entries, which are in lexicographic order.
SortedKeys(df) ==
    LET present == {df.rows[i]["WineType"].str : i \in DOMAIN df.rows}
        idx == Ascending({i \in DOMAIN target_names : target_names[i] \in present})
    IN [k \in DOMAIN idx |-> target_names[idx[k]]]

\* GroupbyMean with the group filter lost: every key's row averages all rows.
GroupbyMeanAllRows(df) ==
    LET keys == SortedKeys(df)
        feats == DropWineType(df)
    IN [columns |-> <<"WineType">> \o feats,
        rows |-> [g \in DOMAIN keys |->
                    [c \in Range(feats) \cup {"WineType"} |->
                       IF c = "WineType" THEN Str(keys[g])
                       ELSE Mean([j \in DOMAIN df.rows |-> df.rows[j][c]])]]]

\* wine_df.groupby("WineType").mean().reset_index(): one row per key, WineType
\* first, then every other column's mean over the rows of that key.
GroupbyMean(df) ==
    LET keys == SortedKeys(df)
        feats == DropWineType(df)
        Members(key) == Ascending({i \in DOMAIN df.rows : df.rows[i]["WineType"].str = key})
    IN [columns |-> <<"WineType">> \o feats,
        rows |-> [g \in DOMAIN keys |->
                    [c \in Range(feats) \cup {"WineType"} |->
                       IF c = "WineType" THEN Str(keys[g])
                       ELSE LET m == Members(keys[g])
                            IN Mean([j \in DOMAIN m |-> df.rows[m[j]][c]])]]]

---------------------------------------------------------------------------
(* Text.  A Python str is a sequence of one-character strings here, so that *)
(* str.capitalize() can be computed character by character.                *)

\* The characters of each name the model uses.
Chars(name) ==
    CASE
      name = "alcohol" ->
        <<"a", "l", "c", "o", "h", "o", "l">>
   []
      name = "malic_acid" ->
        <<"m", "a", "l", "i", "c", "_", "a", "c", "i", "d">>
   []
      name = "ash" ->
        <<"a", "s", "h">>
   []
      name = "alcalinity_of_ash" ->
        <<"a", "l", "c", "a", "l", "i", "n", "i", "t", "y", "_", "o", "f", "_", "a", "s", "h">>
   []
      name = "magnesium" ->
        <<"m", "a", "g", "n", "e", "s", "i", "u", "m">>
   []
      name = "total_phenols" ->
        <<"t", "o", "t", "a", "l", "_", "p", "h", "e", "n", "o", "l", "s">>
   []
      name = "flavanoids" ->
        <<"f", "l", "a", "v", "a", "n", "o", "i", "d", "s">>
   []
      name = "nonflavanoid_phenols" ->
        <<"n", "o", "n", "f", "l", "a", "v", "a", "n", "o", "i", "d", "_", "p", "h", "e", "n", "o", "l", "s">>
   []
      name = "proanthocyanins" ->
        <<"p", "r", "o", "a", "n", "t", "h", "o", "c", "y", "a", "n", "i", "n", "s">>
   []
      name = "color_intensity" ->
        <<"c", "o", "l", "o", "r", "_", "i", "n", "t", "e", "n", "s", "i", "t", "y">>
   []
      name = "hue" ->
        <<"h", "u", "e">>
   []
      name = "od280/od315_of_diluted_wines" ->
        <<"o", "d", "2", "8", "0", "/", "o", "d", "3", "1", "5", "_", "o", "f", "_", "d", "i", "l", "u", "t", "e", "d", "_", "w", "i", "n", "e", "s">>
   []
      name = "proline" ->
        <<"p", "r", "o", "l", "i", "n", "e">>
   []
      name = "WineType" ->
        <<"W", "i", "n", "e", "T", "y", "p", "e">>
   []
      name = "nonexistent" ->
        <<"n", "o", "n", "e", "x", "i", "s", "t", "e", "n", "t">>

Lowers == <<"a", "b", "c", "d", "e", "f", "g", "h", "i", "j", "k", "l", "m", "n", "o", "p", "q", "r", "s", "t", "u", "v", "w", "x", "y", "z">>
Uppers == <<"A", "B", "C", "D", "E", "F", "G", "H", "I", "J", "K", "L", "M", "N", "O", "P", "Q", "R", "S", "T", "U", "V", "W", "X", "Y", "Z">>

\* chr.upper() and chr.lower(): letters change case, every other character stays.
UpperChar(c) ==
    IF \E i \in DOMAIN Lowers : Lowers[i] = c
    THEN Uppers[CHOOSE i \in DOMAIN Lowers : Lowers[i] = c] ELSE c
LowerChar(c) ==
    IF \E i \in DOMAIN Uppers : Uppers[i] = c
    THEN Lowers[CHOOSE i \in DOMAIN Uppers : Uppers[i] = c] ELSE c

\* Capitalize as str.title() would do it: a letter after a non-letter is
\* upper-cased too.
CapitalizeAsTitle(s) ==
    [i \in DOMAIN s |->
       IF i = 1 \/ (s[i - 1] \notin Range(Lowers) \cup Range(Uppers))
       THEN UpperChar(s[i]) ELSE LowerChar(s[i])]

\* str.capitalize(): the first character upper-cased, the rest lower-cased.
Capitalize(s) ==
    [i \in DOMAIN s |-> IF i = 1 THEN UpperChar(s[i]) ELSE LowerChar(s[i])]

\* f"{x_axis.capitalize()} vs {y_axis.capitalize()}", line 56
ScatterTitle(x, y) ==
    Capitalize(Chars(x)) \o <<" ", "v", "s", " ">> \o Capitalize(Chars(y))

\* The bar chart's title, line 75
BarTitle == "Avg. Ingredients per Wine Type"

\* bar_fig.update_layout(height=600), line 76
BarHeight == 600

---------------------------------------------------------------------------
(* Python values and call outcomes *)

\* A Python bool and a Python list, as the color_encode argument receives them.
PyBool(b) == [t |-> "bool", b |-> b]
PyList(items) == [t |-> "list", items |-> items]

\* Python truth value: a list is true exactly when it is not empty.
Truthy(v) == IF v.t = "bool" THEN v.b ELSE Len(v.items) > 0

\* A call that returned a figure, and a call that raised.
Returned(fig) == [kind |-> "figure", fig |-> fig]
Raised(exc) == [kind |-> "raise", exc |-> exc]

\* No outcome held, and no invocation in progress.
NoCall == [kind |-> "none"]
Idle == [fn |-> "none"]

---------------------------------------------------------------------------
(* plotly.express, as lines 54-56 and 74-75 use it *)

\* One plotted mark.
Mark(xcell, ycell) == [x |-> xcell, y |-> ycell]

\* The rows of df, in order, as marks at (row[x], row[y]).
MarksOf(df, idx, x, y) ==
    [k \in DOMAIN idx |-> Mark(df.rows[idx[k]][x], df.rows[idx[k]][y])]

\* px.scatter(df, x=x, y=y, color=color, title=title): a column name that is not
\* a column of df raises ValueError; without color one trace holds every row; with
\* color there is one trace per value of that column, in order of first
\* appearance, holding that value's rows.
PxScatter(df, x, y, color, title) ==
    IF x \notin Range(df.columns) \/ y \notin Range(df.columns)
    THEN Raised("ValueError")
    ELSE LET all == Ascending(DOMAIN df.rows)
             labels == Unique([i \in DOMAIN df.rows |-> df.rows[i][color].str])
             Of(label) == Ascending({i \in DOMAIN df.rows : df.rows[i][color].str = label})
         IN Returned(
              [kind |-> "scatter", title |-> title, xaxis |-> x, yaxis |-> y,
               color |-> color,
               traces |-> IF color = "None"
                          THEN << [name |-> "", marks |-> MarksOf(df, all, x, y)] >>
                          ELSE [g \in DOMAIN labels |->
                                  [name |-> labels[g],
                                   marks |-> MarksOf(df, Of(labels[g]), x, y)]]])

\* Whether y is a list of column references (wide form): every entry names a
\* column of df.  The empty list is one.
IsColList(df, y) == \A i \in DOMAIN y : y[i] \in Range(df.columns)

\* PxWriteBack storing the melted column's name instead of the entry's own.
PxWriteBackMelted(df, y) ==
    IF IsColList(df, y) THEN [i \in DOMAIN y |-> "value"] ELSE y

\* In wide form px stores each processed column name back into the list it was
\* given: y[i] = str(y[i]).
PxWriteBack(df, y) ==
    IF IsColList(df, y) THEN [i \in DOMAIN y |-> y[i]] ELSE y

\* ValueVars keeping the last occurrence's place instead of the first's.
ValueVarsReversed(x, y) ==
    LET idx == Ascending({i \in DOMAIN y : y[i] # x})
        rev == [k \in DOMAIN idx |-> y[idx[Len(idx) + 1 - k]]]
    IN Unique(rev)

\* The columns melted into bars: the entries of y that are not the x column,
\* each once, in order of first appearance.
ValueVars(x, y) ==
    LET idx == Ascending({i \in DOMAIN y : y[i] # x})
    IN Unique([k \in DOMAIN idx |-> y[idx[k]]])

\* px.bar(df, x=x, y=y, title=title).  A list of column names is wide form: one
\* trace per melted column, one bar per row of df.  Any other list is taken as
\* the y data itself: it must be as long as df (else ValueError) and gives one
\* trace whose bar heights are the list's entries.
PxBar(df, x, y, title) ==
    LET all == Ascending(DOMAIN df.rows)
    IN IF IsColList(df, y)
       THEN LET vv == ValueVars(x, y)
            IN Returned(
                 [kind |-> "bar", title |-> title, xaxis |-> x, yaxis |-> "value",
                  color |-> "variable",
                  traces |-> [k \in DOMAIN vv |->
                                [name |-> vv[k], marks |-> MarksOf(df, all, x, vv[k])]]])
       ELSE IF Len(y) # Len(df.rows)
       THEN Raised("ValueError")
       ELSE Returned(
              [kind |-> "bar", title |-> title, xaxis |-> x, yaxis |-> "y",
               color |-> "None",
               traces |-> << [name |-> "",
                              marks |-> [i \in DOMAIN df.rows |->
                                           Mark(df.rows[i][x], Str(y[i]))]] >>])

---------------------------------------------------------------------------
(* The chart builders, lines 36-77 *)

\* create_scatter_chart with x and y handed to px.scatter the wrong way round.
create_scatter_chart_swapped(df, x, y, c) ==
    PxScatter(df, y, x, IF Truthy(c) THEN "WineType" ELSE "None", ScatterTitle(x, y))

\* create_scatter_chart testing `color_encode is True` instead of its truth value.
create_scatter_chart_is_true(df, x, y, c) ==
    PxScatter(df, x, y, IF c = PyBool(TRUE) THEN "WineType" ELSE "None", ScatterTitle(x, y))

\* create_scatter_chart(x_axis, y_axis, color_encode), over the global wine_df
create_scatter_chart(df, x, y, c) ==
    PxScatter(df, x, y, IF Truthy(c) THEN "WineType" ELSE "None", ScatterTitle(x, y))

\* create_bar_chart(ingredients), over the global avg_wine_df: the figure of
\* px.bar with its height set, or px.bar's exception
create_bar_chart(avg, fields) ==
    LET r == PxBar(avg, "WineType", fields, BarTitle)
    IN IF r.kind = "figure"
       THEN Returned([height |-> BarHeight] @@ r.fig)
       ELSE r

\* The defaults of create_scatter_chart, line 36
ScatterDefaults == [x |-> "alcohol", y |-> "malic_acid", c |-> PyBool(FALSE)]

\* The list the def statement binds as create_bar_chart's default, line 60
BarDefaultList == <<"alcohol", "malic_acid", "ash">>

\* The bounded working tables carry the features the default field list names.
NumFeatures == Len(BarDefaultList)

---------------------------------------------------------------------------
(* The callbacks, lines 124-165 *)

\* update_scatter_chart passing its first two inputs in the wrong order.
update_scatter_chart_swapped(df, x, y, c) == create_scatter_chart(df, y, x, c)

\* update_scatter_chart(x_axis, y_axis, color_encode): color_encode is the
\* checklist's list value, handed on as it is
update_scatter_chart(df, x, y, c) == create_scatter_chart(df, x, y, c)

\* update_bar_chart(ingredients)
update_bar_chart(avg, fields) == create_bar_chart(avg, fields)

\* Dash stores a callback's return value in its Output; a callback that raises
\* leaves the Output as it was.
Output(old, r) == IF r.kind = "figure" THEN r.fig ELSE old

---------------------------------------------------------------------------
(* Import: lines 30-33 and 81-120 *)

\* The state after the script's module level has run on a dataset of the given
\* feature names, samples and targets.
Imported(names, data, target) ==
    LET df == load_wine_data_as_dataframe(data, target, names)
        avg == GroupbyMean(df)
    IN /\ wine_df = df
       /\ ingredients = DropWineType(df)
       /\ avg_wine_df = avg
       /\ x_axis = "alcohol"
       /\ y_axis = "malic_acid"
       /\ color_encode = PyList(<<>>)
       /\ multi_select = <<"alcohol", "malic_acid", "ash">>
       /\ scatter_chart = create_scatter_chart(df, ScatterDefaults.x, ScatterDefaults.y,
                                               ScatterDefaults.c).fig
       /\ bar_chart = create_bar_chart(avg, BarDefaultList).fig
       /\ bar_default = PxWriteBack(avg, BarDefaultList)
       /\ call = Idle
       /\ ret = NoCall
       /\ invocations = 0
       /\ startup = [wine_df |-> df, ingredients |-> DropWineType(df),
                     avg_wine_df |-> avg, bar_default |-> BarDefaultList]

\* Datasets of 1..MaxRows samples over the first n features: any targets, the
\* samples' levels alternating from either level.
Datasets(n) ==
    { [data |-> [i \in 1..rows |-> DataRow((i + shift) % 2, n)], target |-> target] :
        <<rows, shift, target>> \in
          UNION { {<<r, sh, t>> : sh \in Levels, t \in [1..r -> 0..(Len(target_names) - 1)]} :
                  r \in 1..MaxRows } }

Init ==
    \E d \in Datasets(NumFeatures) :
        Imported(SubSeq(feature_names, 1, NumFeatures), d.data, d.target)

\* The same over all thirteen features of the dataset.
InitAllFeatures ==
    \E d \in Datasets(Len(feature_names)) : Imported(feature_names, d.data, d.target)

tables == <<wine_df, ingredients, avg_wine_df, startup>>
widgets == <<x_axis, y_axis, color_encode, multi_select, scatter_chart, bar_chart>>

---------------------------------------------------------------------------
(* Input-change events: Dash invokes the callback bound to the changed input *)
(* with the current value of each of its inputs.                            *)

\* The user picks another option of dropdown x_axis.
ChangeXAxis ==
    \E v \in Range(ingredients) \ {x_axis} :
        /\ x_axis' = v
        /\ scatter_chart' =
             Output(scatter_chart, update_scatter_chart(wine_df, v, y_axis, color_encode))
        /\ UNCHANGED <<tables, bar_default, y_axis, color_encode, multi_select,
                       bar_chart, call, ret, invocations>>

\* The user picks another option of dropdown y_axis.
ChangeYAxis ==
    \E v \in Range(ingredients) \ {y_axis} :
        /\ y_axis' = v
        /\ scatter_chart' =
             Output(scatter_chart, update_scatter_chart(wine_df, x_axis, v, color_encode))
        /\ UNCHANGED <<tables, bar_default, x_axis, color_encode, multi_select,
                       bar_chart, call, ret, invocations>>

\* The user ticks or unticks the Color-Encode box: the checklist's value is the
\* list of the ticked options' values, [True] or [].
ToggleColorEncode ==
    LET v == IF color_encode.items = <<>> THEN PyList(<<TRUE>>) ELSE PyList(<<>>)
    IN /\ color_encode' = v
       /\ scatter_chart' =
            Output(scatter_chart, update_scatter_chart(wine_df, x_axis, y_axis, v))
       /\ UNCHANGED <<tables, bar_default, x_axis, y_axis, multi_select,
                      bar_chart, call, ret, invocations>>

\* The user adds an option to the multi-select dropdown: it is appended.
SelectIngredient ==
    \E v \in Range(ingredients) \ Range(multi_select) :
        LET sel == Append(multi_select, v)
        IN /\ multi_select' = sel
           /\ bar_chart' = Output(bar_chart, update_bar_chart(avg_wine_df, sel))
           /\ UNCHANGED <<tables, bar_default, x_axis, y_axis, color_encode,
                          scatter_chart, call, ret, invocations>>

\* The user removes one selected option from the multi-select dropdown.
DeselectIngredient ==
    \E i \in DOMAIN multi_select :
        LET sel == SubSeq(multi_select, 1, i - 1)
                     \o SubSeq(multi_select, i + 1, Len(multi_select))
        IN /\ multi_select' = sel
           /\ bar_chart' = Output(bar_chart, update_bar_chart(avg_wine_df, sel))
           /\ UNCHANGED <<tables, bar_default, x_axis, y_axis, color_encode,
                          scatter_chart, call, ret, invocations>>

Next ==
    \/ ChangeXAxis
    \/ ChangeYAxis
    \/ ToggleColorEncode
    \/ SelectIngredient
    \/ DeselectIngredient

Spec == Init /\ [][Next]_vars

---------------------------------------------------------------------------
(* Direct invocations of the builders and of the callback functions *)

\* The field names a caller may pass: the ingredients, the category column, and
\* a name that is no column.
ArgNames == Range(ingredients) \cup {"WineType", "nonexistent"}

\* The color_encode arguments a caller may pass.
ColorArgs == {PyBool(FALSE), PyBool(TRUE), PyList(<<>>), PyList(<<TRUE>>)}

\* The field lists a caller may pass: up to MaxFields names, repeats included.
FieldLists == UNION {[1..n -> ArgNames] : n \in 0..MaxFields}

\* create_scatter_chart(x, y, c)
CallScatter ==
    /\ ret = NoCall
    /\ invocations < MaxCalls
    /\ invocations' = invocations + 1
    /\ \E x \in ArgNames, y \in ArgNames, c \in ColorArgs :
            /\ call' = [fn |-> "create_scatter_chart", x |-> x, y |-> y, c |-> c]
            /\ ret' = create_scatter_chart(wine_df, x, y, c)
            /\ UNCHANGED <<tables, bar_default, widgets>>

\* create_scatter_chart()
CallScatterDefault ==
    /\ ret = NoCall
    /\ invocations < MaxCalls
    /\ invocations' = invocations + 1
    /\ call' = [fn |-> "create_scatter_chart", x |-> ScatterDefaults.x,
                y |-> ScatterDefaults.y, c |-> ScatterDefaults.c]
    /\ ret' = create_scatter_chart(wine_df, ScatterDefaults.x, ScatterDefaults.y,
                                   ScatterDefaults.c)
    /\ UNCHANGED <<tables, bar_default, widgets>>

\* create_bar_chart(fields), the list being the caller's own
CallBar ==
    /\ ret = NoCall
    /\ invocations < MaxCalls
    /\ invocations' = invocations + 1
    /\ \E fields \in FieldLists :
            /\ call' = [fn |-> "create_bar_chart", fields |-> fields, dflt |-> FALSE]
            /\ ret' = create_bar_chart(avg_wine_df, fields)
            /\ UNCHANGED <<tables, bar_default, widgets>>

\* create_bar_chart(): the list is the function's default object, which px.bar
\* is handed and writes back into
CallBarDefault ==
    /\ ret = NoCall
    /\ invocations < MaxCalls
    /\ invocations' = invocations + 1
    /\ call' = [fn |-> "create_bar_chart", fields |-> bar_default, dflt |-> TRUE]
    /\ ret' = create_bar_chart(avg_wine_df, bar_default)
    /\ bar_default' = PxWriteBack(avg_wine_df, bar_default)
    /\ UNCHANGED <<tables, widgets>>

\* update_scatter_chart(x, y, c), c a checklist value
CallUpdateScatter ==
    /\ ret = NoCall
    /\ invocations < MaxCalls
    /\ invocations' = invocations + 1
    /\ \E x \in ArgNames, y \in ArgNames, c \in {PyList(<<>>), PyList(<<TRUE>>)} :
            /\ call' = [fn |-> "update_scatter_chart", x |-> x, y |-> y, c |-> c]
            /\ ret' = update_scatter_chart(wine_df, x, y, c)
            /\ UNCHANGED <<tables, bar_default, widgets>>

\* update_bar_chart(fields)
CallUpdateBar ==
    /\ ret = NoCall
    /\ invocations < MaxCalls
    /\ invocations' = invocations + 1
    /\ \E fields \in FieldLists :
            /\ call' = [fn |-> "update_bar_chart", fields |-> fields, dflt |-> FALSE]
            /\ ret' = update_bar_chart(avg_wine_df, fields)
            /\ UNCHANGED <<tables, bar_default, widgets>>

\* The caller is done with the returned figure (or has handled the exception)
\* and is free to invoke again.
Discard ==
    /\ ret # NoCall
    /\ call' = Idle
    /\ ret' = NoCall
    /\ UNCHANGED <<tables, bar_default, widgets, invocations>>

NextDirect ==
    \/ CallScatter
    \/ CallScatterDefault
    \/ CallBar
    \/ CallBarDefault
    \/ CallUpdateScatter
    \/ CallUpdateBar
    \/ Discard

SpecDirect == Init /\ [][NextDirect]_vars

\* Scatter invocations over the dataset's full feature list.
NextTitle ==
    \/ CallScatter
    \/ CallScatterDefault
    \/ Discard

SpecTitle == InitAllFeatures /\ [][NextTitle]_vars

---------------------------------------------------------------------------
(* Vocabulary of the properties *)

\* The category labels that occur in a table.
Categories(df) == {df.rows[i]["WineType"].str : i \in DOMAIN df.rows}

\* The rows of a table that carry a label.
RowsOf(df, label) == {i \in DOMAIN df.rows : df.rows[i]["WineType"].str = label}

RECURSIVE SumOver(_, _, _)
\* The sum of column f over a set of rows of df.
SumOver(S, df, f) ==
    IF S = {} THEN 0
    ELSE LET i == CHOOSE i \in S : TRUE
         IN df.rows[i][f].num + SumOver(S \ {i}, df, f)

RECURSIVE Flatten(_)
\* The marks of all traces, one after the other.
Flatten(traces) ==
    IF traces = <<>> THEN <<>> ELSE Head(traces).marks \o Flatten(Tail(traces))

\* How often a value occurs in a sequence.
Count(v, seq) == Cardinality({i \in DOMAIN seq : seq[i] = v})

\* The first position of a value in a sequence.
FirstIndex(v, seq) == CHOOSE i \in DOMAIN seq : seq[i] = v /\ \A j \in 1..(i - 1) : seq[j] # v

ScatterCalled == call.fn \in {"create_scatter_chart", "update_scatter_chart"}
BarCalled == call.fn \in {"create_bar_chart", "update_bar_chart"}

\* A bar invocation whose field list is non-empty and names ingredients only.
BarCalledValid ==
    /\ BarCalled
    /\ call.fields # <<>>
    /\ \A i \in DOMAIN call.fields : call.fields[i] \in Range(ingredients)

\* The bars of one trace: one per row of the aggregate table, in its order, at
\* that row's label, as high as that row's mean of the field.
BarsAreMeans(trace, field) ==
    /\ Len(trace.marks) = Len(avg_wine_df.rows)
    /\ \A g \in DOMAIN avg_wine_df.rows :
         trace.marks[g] = [x |-> avg_wine_df.rows[g]["WineType"],
                           y |-> avg_wine_df.rows[g][field]]

---------------------------------------------------------------------------
(* C1 *)

\* C1: avg_wine_df has exactly one row per distinct category label of wine_df, and
\* in the row of category c every ingredient's value is the arithmetic mean of
\* that ingredient over exactly the wine_df rows of category c.
C1_AggregateIsGroupMean ==
    /\ Len(avg_wine_df.rows) = Cardinality(Categories(wine_df))
    /\ \A c \in Categories(wine_df) :
         Cardinality({g \in DOMAIN avg_wine_df.rows :
                        avg_wine_df.rows[g]["WineType"].str = c}) = 1
    /\ \A g \in DOMAIN avg_wine_df.rows : \A f \in Range(ingredients) :
         LET members == RowsOf(wine_df, avg_wine_df.rows[g]["WineType"].str)
             v == avg_wine_df.rows[g][f]
         IN /\ members # {}
            /\ v.den > 0
            /\ v.num * Cardinality(members) = v.den * SumOver(members, wine_df, f)

\* A table of two categories, one of them with several rows whose mean is not
\* a whole number.
C1_Witness ==
    /\ Cardinality(Categories(wine_df)) = 2
    /\ Len(wine_df.rows) = 3
    /\ \E g \in DOMAIN avg_wine_df.rows : avg_wine_df.rows[g]["malic_acid"].den > 1

---------------------------------------------------------------------------
(* C2 *)

\* C2: a scatter invocation with x and y among the ingredients returns a chart
\* whose marks, over all traces, number the rows of wine_df, each row appearing
\* as one mark at (its x value, its y value), for every color_encode.
C2_EveryRecordOnePoint ==
    (ScatterCalled /\ call.x \in Range(ingredients) /\ call.y \in Range(ingredients)) =>
        /\ ret.kind = "figure"
        /\ LET marks == Flatten(ret.fig.traces)
               want == [i \in DOMAIN wine_df.rows |->
                          [x |-> wine_df.rows[i][call.x], y |-> wine_df.rows[i][call.y]]]
           IN /\ Len(marks) = Len(wine_df.rows)
              /\ \A i \in DOMAIN want : Count(want[i], marks) = Count(want[i], want)

\* A color-encoded chart of three rows in several traces, x and y different.
C2_Witness ==
    /\ ScatterCalled
    /\ call.x = "ash" /\ call.y = "alcohol"
    /\ Truthy(call.c)
    /\ ret.kind = "figure"
    /\ Len(ret.fig.traces) >= 2
    /\ Len(wine_df.rows) = 3

---------------------------------------------------------------------------
(* C3, C4 *)

\* C3: a bar invocation, direct or through update_bar_chart, whose field list is
\* empty or holds a name outside the ingredients raises.
C3_BarRejectsInvalidFields ==
    (BarCalled /\ (call.fields = <<>>
                   \/ \E i \in DOMAIN call.fields : call.fields[i] \notin Range(ingredients)))
        => ret.kind = "raise"

\* C4: a scatter invocation whose x or y is not among the ingredients raises.
C4_ScatterRejectsInvalidFields ==
    (ScatterCalled /\ (call.x \notin Range(ingredients) \/ call.y \notin Range(ingredients)))
        => ret.kind = "raise"

---------------------------------------------------------------------------
(* C5 *)

\* C5: whatever has been invoked, wine_df, ingredients and avg_wine_df are what
\* they were after import, and the bar builder's default list is
\* ["alcohol", "malic_acid", "ash"].
C5_TablesAndDefaultUntouched ==
    /\ wine_df = startup.wine_df
    /\ ingredients = startup.ingredients
    /\ avg_wine_df = startup.avg_wine_df
    /\ bar_default = <<"alcohol", "malic_acid", "ash">>

\* A second invocation, made with the default list, after a first one.
C5_Witness ==
    /\ invocations = MaxCalls
    /\ call.fn = "create_bar_chart"
    /\ call.dflt
    /\ ret.kind = "figure"

---------------------------------------------------------------------------
(* C6 *)

\* The slots hold what the builders give for the widgets' current values.
C6_SlotsFollowWidgets ==
    LET sc == create_scatter_chart(wine_df, x_axis, y_axis, color_encode)
        bc == create_bar_chart(avg_wine_df, multi_select)
    IN /\ sc.kind = "figure"
       /\ scatter_chart = sc.fig
       /\ bc.kind = "figure"
       /\ bar_chart = bc.fig

\* A change of multi_select leaves scatter_chart alone; a change of a scatter
\* input leaves bar_chart alone.
C6_OtherSlotKept ==
    /\ (multi_select' # multi_select) => (scatter_chart' = scatter_chart)
    /\ (x_axis' # x_axis \/ y_axis' # y_axis \/ color_encode' # color_encode)
         => (bar_chart' = bar_chart)

\* C6: at startup and after every input-change event, scatter_chart is the
\* scatter builder's chart for the current x_axis, y_axis and color_encode and
\* bar_chart is the bar builder's chart for the current multi_select; an event on
\* one chart's inputs leaves the other chart unchanged.
C6_ChartsTrackInputs == [](C6_SlotsFollowWidgets) /\ [][C6_OtherSlotKept]_vars

\* Every widget has left its initial value.
C6_Witness ==
    /\ x_axis = "ash"
    /\ y_axis = "alcohol"
    /\ color_encode = PyList(<<TRUE>>)
    /\ multi_select = <<"ash">>
    /\ Len(scatter_chart.traces) >= 2
    /\ Len(bar_chart.traces) = 1

---------------------------------------------------------------------------
(* C7 *)

\* Color encoding is on: the argument is True, or the checklist value [True].
ColorOn(c) == c = PyBool(TRUE) \/ c = PyList(<<TRUE>>)

\* Grouped by category: one trace per category of wine_df, named by it, holding
\* exactly that category's rows in table order.
Grouped(fig) ==
    /\ fig.color = "WineType"
    /\ {fig.traces[t].name : t \in DOMAIN fig.traces} = Categories(wine_df)
    /\ Len(fig.traces) = Cardinality(Categories(wine_df))
    /\ \A t \in DOMAIN fig.traces :
         LET idx == Ascending(RowsOf(wine_df, fig.traces[t].name))
         IN /\ Len(fig.traces[t].marks) = Len(idx)
            /\ \A k \in DOMAIN idx :
                 fig.traces[t].marks[k] = [x |-> wine_df.rows[idx[k]][call.x],
                                           y |-> wine_df.rows[idx[k]][call.y]]

\* No grouping: a single unnamed trace holds every row.
Ungrouped(fig) ==
    /\ fig.color = "None"
    /\ Len(fig.traces) = 1
    /\ fig.traces[1].name = ""
    /\ Len(fig.traces[1].marks) = Len(wine_df.rows)

\* C7: a scatter chart is grouped by WineType exactly when color encoding is on;
\* through update_scatter_chart the checklist value [] gives no grouping and
\* [True] gives grouping.
C7_GroupedIffColorEncode ==
    (ScatterCalled /\ ret.kind = "figure") =>
        /\ ColorOn(call.c) => Grouped(ret.fig)
        /\ ~ColorOn(call.c) => Ungrouped(ret.fig)

\* The callback was handed [True] and the chart has a trace per category.
C7_Witness ==
    /\ call.fn = "update_scatter_chart"
    /\ call.c = PyList(<<TRUE>>)
    /\ ret.kind = "figure"
    /\ Len(ret.fig.traces) = 3

---------------------------------------------------------------------------
(* C8 *)

\* The title and the height every bar chart carries.
BarDressing(fig) == fig.title = "Avg. Ingredients per Wine Type" /\ fig.height = 600

\* C8 as stated: for a non-empty list of ingredients the chart has one trace per
\* entry of the list, in the list's order, each with one bar per aggregate row
\* as high as that category's mean of the entry's field.
C8_OneBarPerEntry ==
    BarCalledValid =>
        /\ ret.kind = "figure"
        /\ BarDressing(ret.fig)
        /\ Len(ret.fig.traces) = Len(call.fields)
        /\ \A k \in DOMAIN ret.fig.traces :
             /\ ret.fig.traces[k].name = call.fields[k]
             /\ BarsAreMeans(ret.fig.traces[k], call.fields[k])

\* C8 amended: one trace per distinct entry of the list, in order of first
\* occurrence, each with one bar per aggregate row as high as that category's
\* mean of the field; title and height as stated.
C8_OneBarPerDistinctEntry ==
    BarCalledValid =>
        /\ ret.kind = "figure"
        /\ BarDressing(ret.fig)
        /\ Len(ret.fig.traces) = Cardinality(Range(call.fields))
        /\ \A k \in DOMAIN ret.fig.traces :
             /\ ret.fig.traces[k].name \in Range(call.fields)
             /\ BarsAreMeans(ret.fig.traces[k], ret.fig.traces[k].name)
             /\ \A l \in DOMAIN ret.fig.traces :
                  k < l => FirstIndex(ret.fig.traces[k].name, call.fields)
                             < FirstIndex(ret.fig.traces[l].name, call.fields)

\* Three categories and the fields alcohol, malic_acid, ash: three groups of
\* three bars.
C8_Witness ==
    /\ BarCalled
    /\ call.fields = <<"alcohol", "malic_acid", "ash">>
    /\ Cardinality(Categories(wine_df)) = 3
    /\ ret.kind = "figure"
    /\ Len(ret.fig.traces) = 3
    /\ \A k \in DOMAIN ret.fig.traces : Len(ret.fig.traces[k].marks) = 3

---------------------------------------------------------------------------
(* C9 *)

\* C9: whatever was invoked before, an invocation returns (or raises) what the
\* same invocation gives in a process that has just been imported: two runs
\* that invoke a builder with the same arguments get the same chart.
C9_SameArgumentsSameChart ==
    /\ ScatterCalled =>
         ret = create_scatter_chart(startup.wine_df, call.x, call.y, call.c)
    /\ BarCalled =>
         ret = create_bar_chart(startup.avg_wine_df,
                                IF call.dflt THEN startup.bar_default ELSE call.fields)

\* The default bar chart built again, after an earlier invocation.
C9_Witness ==
    /\ invocations = MaxCalls
    /\ BarCalled
    /\ call.dflt
    /\ ret.kind = "figure"
    /\ Len(ret.fig.traces) = Len(startup.bar_default)

---------------------------------------------------------------------------
(* C10 *)

\* A name with its first character upper-cased and the rest kept.
FirstUpper(s) == <<UpperChar(s[1])>> \o Tail(s)

\* C10: for x and y among the ingredients the scatter chart's title is x with
\* its first character upper-cased, " vs ", and y with its first character
\* upper-cased, all other characters as in the field names; for alcohol and
\* malic_acid it is "Alcohol vs Malic_acid".
C10_TitleIsCapitalizedFields ==
    (ScatterCalled /\ call.x \in Range(ingredients) /\ call.y \in Range(ingredients)) =>
        /\ ret.kind = "figure"
        /\ ret.fig.title = FirstUpper(Chars(call.x)) \o <<" ", "v", "s", " ">>
                             \o FirstUpper(Chars(call.y))
        /\ (call.x = "alcohol" /\ call.y = "malic_acid") =>
             ret.fig.title = <<"A", "l", "c", "o", "h", "o", "l", " ", "v", "s", " ",
                               "M", "a", "l", "i", "c", "_", "a", "c", "i", "d">>

\* A title built from names with underscores, digits and a slash.
C10_Witness ==
    /\ ScatterCalled
    /\ call.x = "od280/od315_of_diluted_wines"
    /\ call.y = "nonflavanoid_phenols"
    /\ ret.kind = "figure"
    /\ Len(ret.fig.title) = Len(Chars(call.x)) + Len(Chars(call.y)) + 4

====
